---- MODULE Spec2Model ----
(***************************************************************************)
(* Model of radish/algo_strategy.py: the per-turn decision agent           *)
(* (AlgoStrategy) and the Engine calls it makes.                            *)
(*                                                                          *)
(* The agent's persistent state is the four attributes set by              *)
(* on_game_start.  The GameState wrapper is a local of on_turn: it is built *)
(* from the turn snapshot the Engine sends, mutated by attempt_spawn and    *)
(* attempt_upgrade, submitted, and dropped when the agent goes back to wait *)
(* for the next command.                                                    *)
(***************************************************************************)
EXTENDS Integers, Sequences, FiniteSets, TLC

VARIABLES
    config,               \* self.config, the match configuration
    scored_on_locations,  \* self.scored_on_locations (BreachLog)
    got_damage,           \* self.got_damage (took-damage flag)
    RUSH,                 \* self.RUSH (rush_active)
    RUSH_ATTEMPTED,       \* self.RUSH_ATTEMPTED
    pc,                   \* "idle" | "on_turn" | "on_action_frame": handler that just ran
    error,                \* "none", or the exception a handler raised
    turn,                 \* number of the next turn the Engine will send
    turn_state,           \* the snapshot handed to the last on_turn
    game_state,           \* the GameState of the last on_turn, after its calls
    frame,                \* the event batch handed to the last on_action_frame
    burst_last_turn,      \* history: the most recent on_turn issued the burst
    damage_since_turn     \* history: a batch since the most recent on_turn held
                          \* a breach with owner flag 1

vars == <<config, scored_on_locations, got_damage, RUSH, RUSH_ATTEMPTED, pc,
          error, turn, turn_state, game_state, frame, burst_last_turn,
          damage_since_turn>>

(***************************************************************************)
(* Bounds of the model.                                                     *)
(***************************************************************************)
MaxTurn == 11        \* turns 0..MaxTurn are played
OpeningTurns == 1    \* turns 0..OpeningTurns are played in the opening
MaxLog == 2          \* length of scored_on_locations
MaxBatch == 2        \* breach events in one batch
MaxCands == 2        \* candidates handed to the risk estimator

\* The values the Engine's snapshots and the match configuration take.
BitsChoices == {10, 11, 12, 13}     \* tempo balance at the start of a turn
CoresChoices == {7, 8, 9}           \* structure balance at the start of a turn
CostChoices == {1}                  \* cost of a unit or an upgrade
DamageChoices == {2}                \* damage of one hit of a unit
AttackerChoices == {0, 1}           \* attackers of one path location
OwnerFlags == {1, 2}                \* owner flag of a breach event

Min(a, b) == IF a < b THEN a ELSE b

(***************************************************************************)
(* on_game_start: unit shorthands and resource indices (lines 35-43).       *)
(***************************************************************************)
Shorthands == <<"FF", "EF", "DF", "PI", "EI", "SI">>

\* The configurations a match can start with: six units, each with a
\* shorthand, a cost and a damage value.
Configs ==
    { [unitInformation |->
          [i \in 1..6 |-> [shorthand |-> Shorthands[i], cost |-> c, damage |-> d]]]
      : c \in CostChoices, d \in DamageChoices }

FILTER == config.unitInformation[1].shorthand
ENCRYPTOR == config.unitInformation[2].shorthand
DESTRUCTOR == config.unitInformation[3].shorthand
PING == config.unitInformation[4].shorthand
EMP == config.unitInformation[5].shorthand
SCRAMBLER == config.unitInformation[6].shorthand
BITS == 1
CORES == 0

(***************************************************************************)
(* The fixed coordinate lists of build_defences and starter_strategy.       *)
(***************************************************************************)
basic_filter_locations ==
    << <<5, 11>>, <<6, 11>>, <<21, 11>>, <<22, 11>>, <<6, 9>>, <<21, 9>>, <<7, 8>>,
       <<20, 8>>, <<8, 7>>, <<19, 7>>, <<9, 6>>, <<18, 6>>, <<10, 5>>, <<12, 5>>,
       <<13, 5>>, <<14, 5>>, <<15, 5>>, <<17, 5>>, <<11, 4>>, <<16, 4>>, <<3, 11>>,
       <<2, 12>>, <<1, 13>>, <<24, 11>>, <<25, 12>>, <<26, 13>> >>

basic_destructor_locations == << <<5, 10>>, <<22, 10>> >>

encryptor_locations ==
    << <<13, 3>>, <<14, 3>>, <<13, 2>>, <<14, 2>>, <<13, 1>>, <<14, 1>>, <<13, 0>>,
       <<14, 0>>, <<12, 1>>, <<15, 1>>, <<12, 2>>, <<15, 2>> >>

secondary_destructor_locations ==
    << <<27, 13>>, <<0, 13>>, <<21, 10>>, <<6, 10>>, <<26, 12>>, <<25, 11>>,
       <<1, 12>>, <<24, 10>>, <<2, 11>>, <<3, 10>>, <<20, 10>>, <<20, 9>> >>

filter_upgrade_locations ==
    << <<5, 11>>, <<6, 11>>, <<21, 11>>, <<22, 11>>, <<6, 9>>, <<21, 9>>, <<3, 11>>,
       <<2, 12>>, <<1, 13>>, <<24, 11>>, <<25, 12>>, <<26, 13>> >>

scrambler_locations == << <<6, 7>>, <<21, 7>> >>

ping_spawn_location_options == << <<11, 2>>, <<16, 2>> >>

Range(s) == { s[i] : i \in 1..Len(s) }

(***************************************************************************)
(* The Engine (gamelib.GameState), as the agent relies on it: resource      *)
(* balances, occupancy, best-effort placement and upgrade, path and         *)
(* attacker queries, submission.                                            *)
(***************************************************************************)
Unit(unit_type) == [unit_type |-> unit_type, upgraded |-> FALSE]

BoardOf(unit_type, locations) ==
    [l \in Range(locations) |-> Unit(unit_type)]

EmptyBoard == BoardOf("FF", <<>>)

\* Every structure of build_defences in place, every upgrade it asks for
\* done except those of the energy generators.
FortifiedBoard ==
    LET placed == BoardOf("DF", basic_destructor_locations)
                  @@ BoardOf("FF", basic_filter_locations)
                  @@ BoardOf("EF", encryptor_locations)
                  @@ BoardOf("DF", secondary_destructor_locations)
        done == Range(filter_upgrade_locations)
                \cup Range(secondary_destructor_locations)
                \cup Range(basic_destructor_locations)
    IN  [l \in DOMAIN placed |->
            [unit_type |-> placed[l].unit_type, upgraded |-> l \in done]]

\* The fortified board after the wall at [7, 8] was destroyed.
BreachedBoard == [l \in DOMAIN FortifiedBoard \ {<<7, 8>>} |-> FortifiedBoard[l]]

\* The boards a snapshot can show, by name.
Board(name) ==
    CASE name = "fortified" -> FortifiedBoard
      [] name = "breached" -> BreachedBoard
      [] OTHER -> EmptyBoard

BoardChoices == {"empty", "fortified", "breached"}

\* Locations of a lane where enemy turrets may reach a unit.
ThreatLocs == {<<12, 3>>, <<15, 3>>}

SpawnLocs == {<<11, 2>>, <<16, 2>>, <<13, 0>>}

NoAttackers == [l \in ThreatLocs |-> 0]

\* The snapshots the Engine can send for turn t: the board is empty at turn
\* 0; the structure balance and the board vary with no enemy turret in
\* reach, the enemy turrets vary on the empty board.
TurnStates(t) ==
    [turn_number : {t}, bits : BitsChoices, cores : CoresChoices,
     board : IF t = 0 THEN {"empty"} ELSE BoardChoices,
     attackers : {NoAttackers}]
    \cup
    [turn_number : {t}, bits : BitsChoices, cores : {8},
     board : {"empty"}, attackers : [ThreatLocs -> AttackerChoices]]

NoTurnState ==
    [turn_number |-> -1, bits |-> 0, cores |-> 0, board |-> "empty",
     attackers |-> NoAttackers]

\* gamelib.GameState(config, turn_state)
GameState(ts) ==
    [turn_number |-> ts.turn_number,
     resources |-> [r \in {CORES, BITS} |-> IF r = BITS THEN ts.bits ELSE ts.cores],
     game_map |-> Board(ts.board),
     attackers |-> ts.attackers,
     calls |-> <<>>]

NoGameState == GameState(NoTurnState)

get_resource(gs, resource_type) == gs.resources[resource_type]

contains_stationary_unit(gs, location) == location \in DOMAIN gs.game_map

is_stationary(unit_type) == unit_type \in {FILTER, ENCRYPTOR, DESTRUCTOR}

type_cost(unit_type) ==
    LET i == CHOOSE j \in 1..6 : config.unitInformation[j].shorthand = unit_type
    IN  config.unitInformation[i].cost

damage_i(unit_type) ==
    LET i == CHOOSE j \in 1..6 : config.unitInformation[j].shorthand = unit_type
    IN  config.unitInformation[i].damage

\* The resource a unit is paid from.
resource_of(unit_type) == IF is_stationary(unit_type) THEN CORES ELSE BITS

\* One Engine call as the turn's plan records it: who made it, its
\* arguments, how many units it placed or upgraded and what it was charged.
Call(by, op, unit_type, locations, num, done, cost) ==
    [by |-> by, op |-> op, unit_type |-> unit_type, locations |-> locations,
     num |-> num, done |-> done, cost |-> cost]

\* game_state.attempt_spawn(unit_type, locations, num), called from `by`.
\* The Engine goes through the locations (each listed once) and places a unit where
\* the cell holds no structure and the balance pays for it: one structure per
\* cell, up to num mobile units per cell.  Each unit placed is charged, a
\* structure is put on the map; the rest is skipped silently.
attempt_spawn(gs, by, unit_type, locations, num) ==
    LET Free(l) == ~contains_stationary_unit(gs, l)
        free == SelectSeq(locations, Free)
        r == resource_of(unit_type)
        afford == get_resource(gs, r) \div type_cost(unit_type)
        per_cell == IF is_stationary(unit_type) THEN Min(num, 1) ELSE num
        n == Min(per_cell * Len(free), afford)
        cells == IF is_stationary(unit_type) THEN Range(SubSeq(free, 1, n)) ELSE {}
    IN  [gs EXCEPT
            !.resources[r] = @ - n * type_cost(unit_type),
            !.game_map = [l \in cells |-> Unit(unit_type)] @@ @,
            !.calls = Append(@, Call(by, "attempt_spawn", unit_type, locations,
                                     num, n, n * type_cost(unit_type)))]

\* game_state.attempt_upgrade(locations), called from `by`.  The Engine
\* upgrades, in order, the structures of the list that are not upgraded yet,
\* while the balance pays for it; every list of build_defences holds
\* structures of one kind, so of one cost.
attempt_upgrade(gs, by, locations) ==
    LET Eligible(l) == contains_stationary_unit(gs, l) /\ ~gs.game_map[l].upgraded
        eligible == SelectSeq(locations, Eligible)
        cost == IF eligible = <<>> THEN 1
                ELSE type_cost(gs.game_map[eligible[1]].unit_type)
        n == Min(Len(eligible), get_resource(gs, CORES) \div cost)
        cells == Range(SubSeq(eligible, 1, n))
    IN  [gs EXCEPT
            !.resources[CORES] = @ - n * cost,
            !.game_map = [l \in DOMAIN @ |->
                             IF l \in cells THEN [@[l] EXCEPT !.upgraded = TRUE]
                             ELSE @[l]],
            !.calls = Append(@, Call(by, "attempt_upgrade", "", locations, 1, n,
                                     n * cost))]

\* game_state.submit_turn(), called from `by`.
submit_turn(gs, by) ==
    [gs EXCEPT !.calls = Append(@, Call(by, "submit_turn", "", <<>>, 0, 0, 0))]

\* game_state.find_path_to_edge(location): the lane of a spawn location.
find_path_to_edge(gs, location) ==
    CASE location = <<11, 2>> -> << <<11, 2>>, <<11, 3>>, <<12, 3>>, <<12, 4>> >>
      [] location = <<16, 2>> -> << <<16, 2>>, <<16, 3>>, <<15, 3>> >>
      [] OTHER -> << location, <<12, 3>>, <<12, 4>>, <<15, 3>> >>

\* game_state.get_attackers(location, 0): the enemy turrets in reach.
get_attackers(gs, location, player_index) ==
    IF location \in DOMAIN gs.attackers THEN 1..gs.attackers[location] ELSE {}

(***************************************************************************)
(* build_defences (lines 94-130).                                           *)
(***************************************************************************)
\* The structure-resource gate of lines 117 and 129.
cores_gate(gs) == get_resource(gs, CORES) >= 8

\* Lines 117-121 with <= for < in the turn test.
build_encryptor_tranche_le(gs) ==
    IF cores_gate(gs)
    THEN IF gs.turn_number <= 10
         THEN attempt_spawn(gs, "build_defences", ENCRYPTOR,
                            SubSeq(encryptor_locations, 1, 7), 1)
         ELSE attempt_spawn(gs, "build_defences", ENCRYPTOR, encryptor_locations, 1)
    ELSE gs

\* Lines 117-121: the gated energy-generator tranche.
build_encryptor_tranche(gs) ==
    IF cores_gate(gs)
    THEN IF gs.turn_number < 10
         THEN attempt_spawn(gs, "build_defences", ENCRYPTOR,
                            SubSeq(encryptor_locations, 1, 7), 1)
         ELSE attempt_spawn(gs, "build_defences", ENCRYPTOR, encryptor_locations, 1)
    ELSE gs

\* Lines 129-130 with > for >=.
upgrade_encryptors_gt(gs) ==
    IF get_resource(gs, CORES) > 8
    THEN attempt_upgrade(gs, "build_defences", encryptor_locations)
    ELSE gs

\* Lines 129-130: the gated energy-generator upgrade.
upgrade_encryptors(gs) ==
    IF cores_gate(gs)
    THEN attempt_upgrade(gs, "build_defences", encryptor_locations)
    ELSE gs

\* build_defences upgrading the primary turrets before the secondary ones.
build_defences_primary_upgrade_first(gs) ==
    LET g1 == attempt_spawn(gs, "build_defences", DESTRUCTOR,
                            basic_destructor_locations, 1)
        g2 == attempt_spawn(g1, "build_defences", FILTER, basic_filter_locations, 1)
        g3 == attempt_spawn(g2, "build_defences", ENCRYPTOR,
                            <<encryptor_locations[1]>>, 1)
        g4 == attempt_spawn(g3, "build_defences", DESTRUCTOR,
                            SubSeq(secondary_destructor_locations, 1, 7), 1)
        g5 == build_encryptor_tranche(g4)
        g6 == attempt_spawn(g5, "build_defences", DESTRUCTOR,
                            secondary_destructor_locations, 1)
        g7 == attempt_upgrade(g6, "build_defences", filter_upgrade_locations)
        g8 == attempt_upgrade(g7, "build_defences", basic_destructor_locations)
        g9 == attempt_upgrade(g8, "build_defences", secondary_destructor_locations)
    IN  upgrade_encryptors(g9)

build_defences(gs) ==
    LET g1 == attempt_spawn(gs, "build_defences", DESTRUCTOR,
                            basic_destructor_locations, 1)
        g2 == attempt_spawn(g1, "build_defences", FILTER, basic_filter_locations, 1)
        g3 == attempt_spawn(g2, "build_defences", ENCRYPTOR,
                            <<encryptor_locations[1]>>, 1)
        g4 == attempt_spawn(g3, "build_defences", DESTRUCTOR,
                            SubSeq(secondary_destructor_locations, 1, 7), 1)
        g5 == build_encryptor_tranche(g4)
        g6 == attempt_spawn(g5, "build_defences", DESTRUCTOR,
                            secondary_destructor_locations, 1)
        g7 == attempt_upgrade(g6, "build_defences", filter_upgrade_locations)
        g8 == attempt_upgrade(g7, "build_defences", secondary_destructor_locations)
        g9 == attempt_upgrade(g8, "build_defences", basic_destructor_locations)
    IN  upgrade_encryptors(g9)

(***************************************************************************)
(* least_damage_spawn_location (lines 133-151).                             *)
(***************************************************************************)
\* Lines 143-147: the damage summed along one path.
RECURSIVE path_damage(_, _, _)
path_damage(gs, path, damage) ==
    IF path = <<>> THEN damage
    ELSE path_damage(gs, Tail(path),
             damage + Cardinality(get_attackers(gs, Head(path), 0))
                      * damage_i(DESTRUCTOR))

\* Lines 139-148: one estimate per candidate, in input order.
damages_of(gs, location_options) ==
    [i \in 1..Len(location_options) |->
        path_damage(gs, find_path_to_edge(gs, location_options[i]), 0)]

list_min(s) == CHOOSE m \in Range(s) : \A x \in Range(s) : m <= x

\* list.index(x): the first position holding x.
list_index(s, x) ==
    CHOOSE i \in 1..Len(s) : s[i] = x /\ \A j \in 1..(i - 1) : s[j] # x

\* Line 151 returning the last position of the minimum.
least_index_last(damages) ==
    CHOOSE i \in 1..Len(damages) :
        /\ damages[i] = list_min(damages)
        /\ \A j \in (i + 1)..Len(damages) : damages[j] # list_min(damages)

\* Line 151: the position returned for a list of estimates.
least_index(damages) == list_index(damages, list_min(damages))

least_damage_spawn_location(gs, location_options) ==
    location_options[least_index(damages_of(gs, location_options))]

\* One query of the Engine: find_path_to_edge or get_attackers at a location.
Query(op, location) == [op |-> op, location |-> location]

\* Lines 141-147: the queries made for the candidates, in order: the path of
\* a candidate, then the attackers of each location of that path.
RECURSIVE queries_of(_, _)
queries_of(gs, location_options) ==
    IF location_options = <<>> THEN <<>>
    ELSE LET path == find_path_to_edge(gs, Head(location_options))
         IN  <<Query("find_path_to_edge", Head(location_options))>>
             \o [i \in 1..Len(path) |-> Query("get_attackers", path[i])]
             \o queries_of(gs, Tail(location_options))

\* The estimator trying its choice out on the map it was given.
least_damage_spawn_location_probe(gs, st, location_options) ==
    LET location == least_damage_spawn_location(gs, location_options)
    IN  [game_state |-> [gs EXCEPT !.game_map = (location :> Unit(PING)) @@ @],
         self |-> st,
         queries |-> queries_of(gs, location_options),
         location |-> location]

\* Lines 133-151 as a call made with the agent's attributes st: the
\* GameState and the attributes it leaves (it assigns to neither), the
\* queries it made and the location it returns.
least_damage_spawn_location_call(gs, st, location_options) ==
    [game_state |-> gs,
     self |-> st,
     queries |-> queries_of(gs, location_options),
     location |-> least_damage_spawn_location(gs, location_options)]

(***************************************************************************)
(* starter_strategy (lines 71-85), on the GameState gs and the agent's       *)
(* attributes st.  The local got_damage of line 75 is never read and is not *)
(* the attribute self.got_damage.                                           *)
(***************************************************************************)
bit_increment(gs) == (gs.turn_number \div 10) + 5

\* Line 77 with >= for >.
scrambler_turn_ge(gs) == gs.turn_number = 1 \/ gs.turn_number >= 10

\* Line 77.
scrambler_turn(gs) == gs.turn_number = 1 \/ gs.turn_number > 10

\* Line 80 with >= for >.
rush_condition_ge(gs) == get_resource(gs, BITS) >= bit_increment(gs) * 2

\* Line 80.
rush_condition(gs) == get_resource(gs, BITS) > bit_increment(gs) * 2

\* Lines 77-79.
spawn_scramblers(gs) ==
    IF scrambler_turn(gs)
    THEN attempt_spawn(
             attempt_spawn(gs, "starter_strategy", SCRAMBLER,
                           <<scrambler_locations[1]>>, 1),
             "starter_strategy", SCRAMBLER, <<scrambler_locations[2]>>, 1)
    ELSE gs

\* Lines 80-85: the burst; returns the GameState and the attributes.
rush(gs, st) ==
    IF rush_condition(gs)
    THEN LET best == least_damage_spawn_location_call(
                         gs, st, ping_spawn_location_options)
         IN  [game_state |-> attempt_spawn(best.game_state, "starter_strategy",
                                           PING, <<best.location>>, 1000),
              self |-> [best.self EXCEPT !.RUSH_ATTEMPTED = TRUE]]
    ELSE [game_state |-> gs, self |-> st]

\* starter_strategy with line 75 assigning the attribute self.got_damage.
starter_strategy_sets_got_damage(gs, st) ==
    rush(spawn_scramblers(build_defences(gs)), [st EXCEPT !.got_damage = TRUE])

\* starter_strategy building the defences only until a rush was attempted.
starter_strategy_plan_while_unattempted(gs, st) ==
    rush(spawn_scramblers(IF st.RUSH_ATTEMPTED THEN gs ELSE build_defences(gs)), st)

\* starter_strategy with the defences built after the offence.
starter_strategy_offence_first(gs, st) ==
    LET out == rush(spawn_scramblers(gs), st)
    IN  [out EXCEPT !.game_state = build_defences(@)]

starter_strategy(gs, st) ==
    rush(spawn_scramblers(build_defences(gs)), st)

\* The burst placement among the calls of a turn.
IsBurst(c) == c.op = "attempt_spawn" /\ c.unit_type = PING /\ c.num = 1000

burst_issued(gs) == \E i \in 1..Len(gs.calls) : IsBurst(gs.calls[i])

(***************************************************************************)
(* on_action_frame (lines 163-187).                                         *)
(***************************************************************************)
BreachLocs == {<<3, 4>>, <<10, 2>>}

\* A breach entry is [location, damage, unit type, unit id, owner]; the
\* malformed ones lack the owner flag, or everything.
WellFormedEntries == { <<l, 1, "PI", "7", o>> : l \in BreachLocs, o \in OwnerFlags }

MalformedEntries == { <<>>, << <<3, 4>> >> }

RECURSIVE SeqsUpTo(_, _)
SeqsUpTo(S, n) ==
    IF n = 0 THEN { <<>> }
    ELSE LET shorter == SeqsUpTo(S, n - 1)
         IN  shorter \cup { Append(q, x) : q \in shorter, x \in S }

\* The decoded frames: with a breach list, without one, without events.
Frames ==
    { [events |-> [breach |-> b]] :
          b \in SeqsUpTo(WellFormedEntries \cup MalformedEntries, MaxBatch) }
    \cup { [events |-> [spawn |-> <<>>]], [turnInfo |-> <<1, 0, 0>>] }

NoFrame == [turnInfo |-> <<0, 0, -1>>]

HasBreachList(f) == "events" \in DOMAIN f /\ "breach" \in DOMAIN f.events

\* The batch holds a breach whose owner flag is 1 (line 177).
holds_self_breach(f) ==
    /\ HasBreachList(f)
    /\ \E i \in 1..Len(f.events.breach) :
           Len(f.events.breach[i]) >= 5 /\ f.events.breach[i][5] = 1

\* Lines 176-184 without the owner test of line 182.
breach_step_all(st, breach) ==
    IF Len(breach) < 1 \/ Len(breach) < 5
    THEN [st EXCEPT !.error = "IndexError"]
    ELSE [st EXCEPT
             !.got_damage = IF breach[5] = 1 THEN TRUE ELSE @,
             !.scored_on_locations = Append(@, breach[1])]

\* Lines 176-184: one breach of the loop, on the agent's attributes and the
\* exception raised so far.
breach_step(st, breach) ==
    IF Len(breach) < 1 \/ Len(breach) < 5
    THEN [st EXCEPT !.error = "IndexError"]
    ELSE LET location == breach[1]
             unit_owner_self == (breach[5] = 1)
         IN  [st EXCEPT
                 !.got_damage = IF unit_owner_self THEN TRUE ELSE @,
                 !.scored_on_locations =
                     IF ~unit_owner_self THEN Append(@, location) ELSE @]

\* Lines 175-185: the loop stops at the first exception.
RECURSIVE breach_loop(_, _)
breach_loop(st, breaches) ==
    IF breaches = <<>> \/ st.error # "none" THEN st
    ELSE breach_loop(breach_step(st, Head(breaches)), Tail(breaches))

\* Lines 186-187 without the test of self.RUSH_ATTEMPTED.
rush_after_frame_unattempted(rush_active, attempted, damaged) ==
    IF ~damaged THEN FALSE ELSE rush_active

\* Lines 186-187 with a re-arming else branch.
rush_after_frame_rearm(rush_active, attempted, damaged) ==
    IF attempted /\ ~damaged THEN FALSE ELSE TRUE

\* Lines 186-187.
rush_after_frame(rush_active, attempted, damaged) ==
    IF attempted /\ ~damaged THEN FALSE ELSE rush_active

\* The whole handler on the agent's attributes.
frame_result(f, st) ==
    IF ~HasBreachList(f) THEN [st EXCEPT !.error = "KeyError"]
    ELSE LET looped == breach_loop([st EXCEPT !.got_damage = FALSE], f.events.breach)
         IN  IF looped.error # "none" THEN looped
             ELSE [looped EXCEPT
                      !.RUSH = rush_after_frame(@, st.RUSH_ATTEMPTED,
                                                looped.got_damage)]

Self ==
    [scored_on_locations |-> scored_on_locations, got_damage |-> got_damage,
     RUSH |-> RUSH, RUSH_ATTEMPTED |-> RUSH_ATTEMPTED, error |-> error]

(***************************************************************************)
(* The handlers as actions.                                                 *)
(***************************************************************************)
\* on_game_start (lines 29-48)
Init ==
    /\ config \in Configs
    /\ scored_on_locations = <<>>
    /\ got_damage = TRUE
    /\ RUSH = TRUE
    /\ RUSH_ATTEMPTED = FALSE
    /\ pc = "idle"
    /\ error = "none"
    /\ turn = 0
    /\ turn_state = NoTurnState
    /\ game_state = NoGameState
    /\ frame = NoFrame
    /\ burst_last_turn = FALSE
    /\ damage_since_turn = FALSE

\* on_turn (lines 50-64) for the snapshot ts.
on_turn(ts) ==
    /\ pc = "idle"
    /\ error = "none"
    /\ \E out \in {starter_strategy(GameState(ts), Self)} :
           /\ game_state' = submit_turn(out.game_state, "on_turn")
           /\ scored_on_locations' = out.self.scored_on_locations
           /\ got_damage' = out.self.got_damage
           /\ RUSH' = out.self.RUSH
           /\ RUSH_ATTEMPTED' = out.self.RUSH_ATTEMPTED
           /\ error' = out.self.error
           /\ burst_last_turn' = burst_issued(out.game_state)
    /\ damage_since_turn' = FALSE
    /\ turn_state' = ts
    /\ turn' = turn + 1
    /\ pc' = "on_turn"
    /\ UNCHANGED <<config, frame>>

\* on_action_frame (lines 163-187) for the decoded frame f.
on_action_frame(f) ==
    /\ pc = "idle"
    /\ error = "none"
    /\ LET out == frame_result(f, Self)
       IN  /\ Len(out.scored_on_locations) <= MaxLog
           /\ scored_on_locations' = out.scored_on_locations
           /\ got_damage' = out.got_damage
           /\ RUSH' = out.RUSH
           /\ error' = out.error
    /\ frame' = f
    /\ damage_since_turn' = (damage_since_turn \/ holds_self_breach(f))
    /\ pc' = "on_action_frame"
    /\ UNCHANGED <<config, RUSH_ATTEMPTED, turn, turn_state, game_state,
                   burst_last_turn>>

\* algo.start() (lines 190-192): the handler has returned and the agent waits
\* for the next command; the handler's locals are gone.  An exception is not
\* caught anywhere, so the agent stops at it.
await_command ==
    /\ pc # "idle"
    /\ error = "none"
    /\ pc' = "idle"
    /\ turn_state' = NoTurnState
    /\ game_state' = NoGameState
    /\ frame' = NoFrame
    /\ UNCHANGED <<config, scored_on_locations, got_damage, RUSH, RUSH_ATTEMPTED,
                   error, turn, burst_last_turn, damage_since_turn>>

\* The Engine's commands while the match has not passed turn `last`.
NextUpTo(last) ==
    \/ \E ts \in TurnStates(turn) : turn <= last /\ on_turn(ts)
    \/ \E f \in Frames : on_action_frame(f)
    \/ await_command

Next == NextUpTo(MaxTurn)

Spec == Init /\ [][Next]_vars

\* The opening turns of a match, for the properties of a single decision.
OpeningNext == NextUpTo(OpeningTurns)

OpeningSpec == Init /\ [][OpeningNext]_vars

(***************************************************************************)
(* Vocabulary of the properties.                                            *)
(***************************************************************************)
Calls == game_state.calls

\* The balances the Engine reported at the start of the turn just decided.
TurnNumber == turn_state.turn_number
TempoBalance == turn_state.bits
StructureBalance == turn_state.cores

Threshold(t) == 2 * ((t \div 10) + 5)

RECURSIVE SumSeq(_)
SumSeq(s) == IF s = <<>> THEN 0 ELSE Head(s) + SumSeq(Tail(s))

\* What the Engine charged for the calls of a list that satisfy Counted.
SumCost(calls, Counted(_)) ==
    SumSeq([i \in 1..Len(calls) |-> IF Counted(calls[i]) THEN calls[i].cost ELSE 0])

IsScrambler(c) == c.op = "attempt_spawn" /\ c.unit_type = "SI"

BurstIssued == \E i \in 1..Len(Calls) : IsBurst(Calls[i])

\* A decoded frame with a breach list whose entries all carry a location and
\* an owner flag.
WellFormed(f) ==
    /\ HasBreachList(f)
    /\ \A i \in 1..Len(f.events.breach) : Len(f.events.breach[i]) >= 5

SelfBreach(f) == \E i \in 1..Len(f.events.breach) : f.events.breach[i][5] = 1

(***************************************************************************)
(* C1 State latch: once rush_active (RUSH) is false it is false in every    *)
(* later state, whatever turns are decided and whatever batches arrive.     *)
(***************************************************************************)
C1_StateLatch == [][~RUSH => ~RUSH']_vars

\* A disarmed agent has decided a turn in which it attempted a rush.
C1_Witness == ~RUSH /\ pc = "on_turn" /\ BurstIssued

(***************************************************************************)
(* C2 Disarm rule, as claimed: a well-formed batch takes an armed agent to  *)
(* disarmed if and only if the most recent turn attempted a rush and the    *)
(* batch holds no breach owned by the agent (owner flag 1).                 *)
(***************************************************************************)
C2_DisarmRule ==
    [][(pc' = "on_action_frame" /\ WellFormed(frame') /\ RUSH)
         => (~RUSH' <=> (burst_last_turn /\ ~SelfBreach(frame')))]_vars

(***************************************************************************)
(* C3 Threshold rule, as claimed: the burst is attempted in a turn if and   *)
(* only if the turn's tempo balance exceeds 2 * (floor(t / 10) + 5).        *)
(***************************************************************************)
C3_ThresholdAtTurnStart ==
    pc = "on_turn" => (BurstIssued <=> TempoBalance > Threshold(TurnNumber))

\* C3 as amended: the burst is attempted if and only if the tempo balance
\* left when the comparison is made, that is the turn's balance less what
\* the Engine charged for the turn's scrambler placements, exceeds
\* 2 * (floor(t / 10) + 5); on a turn without scrambler placements that is the
\* turn's balance itself.
C3_ThresholdAtComparison ==
    pc = "on_turn" =>
        /\ BurstIssued <=>
               TempoBalance - SumCost(Calls, IsScrambler) > Threshold(TurnNumber)
        /\ (TurnNumber # 1 /\ TurnNumber <= 10) => SumCost(Calls, IsScrambler) = 0

\* A turn with both scramblers placed and charged in which the burst fires.
C3_Witness ==
    /\ pc = "on_turn"
    /\ TurnNumber = 1
    /\ SumCost(Calls, IsScrambler) > 0
    /\ BurstIssued

(***************************************************************************)
(* C4 Burst only while armed, as claimed: a turn decided with rush_active   *)
(* false issues no burst and does not set the rush-attempted flag.          *)
(***************************************************************************)
C4_BurstOnlyWhileArmed ==
    [][(pc' = "on_turn" /\ ~RUSH)
         => (~BurstIssued' /\ RUSH_ATTEMPTED' = RUSH_ATTEMPTED)]_vars

(***************************************************************************)
(* C5 Per-turn flag, as claimed: at the end of every turn decision the      *)
(* rush-attempted flag is true if and only if the burst fired in that turn. *)
(***************************************************************************)
C5_AttemptedIsPerTurn ==
    pc = "on_turn" => (RUSH_ATTEMPTED <=> BurstIssued)

NotSelf(breach) == breach[5] # 1

\* The locations of the breaches of a batch not owned by the agent.
OpponentLocations(f) ==
    LET kept == SelectSeq(f.events.breach, NotSelf)
    IN  [i \in 1..Len(kept) |-> kept[i][1]]

(***************************************************************************)
(* C6 Breach accounting: after a well-formed batch the took-damage flag is  *)
(* true exactly when the batch holds a breach with owner flag 1, and the    *)
(* breach log is its previous contents followed by the locations of the     *)
(* batch's breaches whose owner flag is not 1, in batch order.              *)
(***************************************************************************)
C6_BreachAccounting ==
    [][(pc' = "on_action_frame" /\ WellFormed(frame'))
         => /\ error' = "none"
            /\ got_damage' = SelfBreach(frame')
            /\ scored_on_locations' = scored_on_locations \o OpponentLocations(frame')]_vars

\* The batch [(3,4) owner 1, (10,2) owner 2] processed on a log that already
\* held an entry.
C6_Witness ==
    /\ pc = "on_action_frame"
    /\ frame = [events |-> [breach |->
                   << << <<3, 4>>, 1, "PI", "7", 1 >>, << <<10, 2>>, 1, "PI", "7", 2 >> >>]]
    /\ got_damage
    /\ scored_on_locations = << <<3, 4>>, <<10, 2>> >>

(***************************************************************************)
(* C7 Turn ordering: among the Engine calls of a turn every call the        *)
(* Defense Planner makes comes before every call the Rush Controller makes, *)
(* submit_turn is called exactly once and last, and no call is made from    *)
(* then until the next turn is decided.                                     *)
(***************************************************************************)
C7_TurnOrdering ==
    /\ pc = "on_turn" =>
          /\ Len(Calls) >= 1
          /\ Calls[Len(Calls)].op = "submit_turn"
          /\ \A i \in 1..(Len(Calls) - 1) :
                 Calls[i].op \in {"attempt_spawn", "attempt_upgrade"}
          /\ \A i, j \in 1..Len(Calls) :
                 (Calls[i].by = "build_defences" /\ Calls[j].by = "starter_strategy")
                     => i < j
    /\ pc # "on_turn" => Calls = <<>>

\* A turn with planner placements and upgrades, both scramblers and the burst.
C7_Witness ==
    /\ pc = "on_turn"
    /\ BurstIssued
    /\ \E i \in 1..Len(Calls) : IsScrambler(Calls[i])
    /\ \E i \in 1..Len(Calls) :
           Calls[i].op = "attempt_upgrade" /\ Calls[i].locations = encryptor_locations

(***************************************************************************)
(* C8 Malformed batch, as claimed: a batch without a breach list, or with a *)
(* breach lacking its location or owner flag, fails with an error and       *)
(* leaves rush_active, the took-damage flag and the breach log as they      *)
(* were.                                                                    *)
(***************************************************************************)
C8_MalformedBatchRejected ==
    [][(pc' = "on_action_frame" /\ ~WellFormed(frame'))
         => /\ error' # "none"
            /\ RUSH' = RUSH
            /\ got_damage' = got_damage
            /\ scored_on_locations' = scored_on_locations]_vars

\* The total of a candidate, summed position by position.
Exposure(location) ==
    LET path == find_path_to_edge(game_state, location)
    IN  SumSeq([i \in 1..Len(path) |->
                   Cardinality(get_attackers(game_state, path[i], 0))
                   * damage_i("DF")])

Candidates == SeqsUpTo(SpawnLocs, MaxCands) \ { <<>> }

\* The totals of the spawn locations in the current Engine state.
Exposures == [l \in SpawnLocs |-> Exposure(l)]

\* In cands, i is the first position of a minimal total of the table e.
FirstMinimal(e, cands, i) ==
    /\ \A j \in 1..Len(cands) : e[cands[i]] <= e[cands[j]]
    /\ \A j \in 1..(i - 1) : e[cands[j]] > e[cands[i]]

(***************************************************************************)
(* C9 Risk Estimator: for every non-empty candidate sequence the location   *)
(* returned is the first candidate whose total, over the locations of its   *)
(* path, of attackers times the reference turret damage is minimal; so a    *)
(* burst goes to [11, 2] unless [16, 2] has a strictly smaller total.  The  *)
(* Engine states are those a turn decision has just worked on.              *)
(***************************************************************************)
C9_RiskEstimator ==
    pc = "on_turn" =>
        \A e \in {Exposures} :
            /\ \A cands \in Candidates :
                   \E i \in 1..Len(cands) :
                       /\ FirstMinimal(e, cands, i)
                       /\ least_damage_spawn_location(game_state, cands) = cands[i]
            /\ \A k \in 1..Len(Calls) :
                   IsBurst(Calls[k]) =>
                       Calls[k].locations =
                           IF e[<<16, 2>>] < e[<<11, 2>>]
                           THEN << <<16, 2>> >> ELSE << <<11, 2>> >>

\* A burst placed at [11, 2] on a tie of two totals that are not zero.
C9_Witness ==
    /\ pc = "on_turn"
    /\ Exposure(<<11, 2>>) > 0
    /\ Exposure(<<11, 2>>) = Exposure(<<16, 2>>)
    /\ \E k \in 1..Len(Calls) :
           IsBurst(Calls[k]) /\ Calls[k].locations = << <<11, 2>> >>

IsEncryptorUpgrade(c) ==
    c.op = "attempt_upgrade" /\ c.locations = encryptor_locations

EncryptorUpgradeIssued == \E i \in 1..Len(Calls) : IsEncryptorUpgrade(Calls[i])

(***************************************************************************)
(* C10 Resource-gated upgrade, as claimed: with a structure balance of 7 or *)
(* less the turn issues no upgrade call for the energy generators, with 8   *)
(* or more it issues the call for the full 12-location list.                *)
(***************************************************************************)
C10_UpgradeGateAtTurnStart ==
    pc = "on_turn" =>
        /\ StructureBalance <= 7 => ~EncryptorUpgradeIssued
        /\ StructureBalance >= 8 => EncryptorUpgradeIssued

\* A planner call that precedes the gated upgrade.
IsEarlierPlannerCall(c) == c.by = "build_defences" /\ ~IsEncryptorUpgrade(c)

\* C10 as amended: with a structure balance of 7 or less no upgrade call for
\* the energy generators is issued; the call for the full 12-location list is
\* issued if and only if the balance left after the Engine charged the
\* planner's earlier placements and upgrades of that turn is 8 or more.
C10_UpgradeGateAtCall ==
    pc = "on_turn" =>
        /\ StructureBalance <= 7 => ~EncryptorUpgradeIssued
        /\ EncryptorUpgradeIssued <=>
               StructureBalance - SumCost(Calls, IsEarlierPlannerCall) >= 8
        /\ \A i \in 1..Len(Calls) :
               (Calls[i].op = "attempt_upgrade"
                    /\ Range(Calls[i].locations) \cap Range(encryptor_locations) # {})
                   => Calls[i].locations = encryptor_locations

\* A turn whose earlier placements were charged and left 8 or more: the
\* upgrade call is issued.
C10_Witness ==
    /\ pc = "on_turn"
    /\ SumCost(Calls, IsEarlierPlannerCall) > 0
    /\ EncryptorUpgradeIssued

\* A placement call of the planner for energy generators.
IsEncryptorSpawn(c) ==
    c.by = "build_defences" /\ c.op = "attempt_spawn" /\ c.unit_type = "EF"

PrimaryEncryptor == << <<13, 3>> >>

IsPrimarySpawn(c) == IsEncryptorSpawn(c) /\ c.locations = PrimaryEncryptor

IsTrancheSpawn(c) == IsEncryptorSpawn(c) /\ c.locations # PrimaryEncryptor

\* The positions, among the calls of the turn, of the calls satisfying P.
Positions(P(_)) == { i \in 1..Len(Calls) : P(Calls[i]) }

\* The planner's placements that come before the tranche gate: the primary
\* turrets, the core walls, the primary energy generator and the first seven
\* secondary turrets.
IsBeforeTrancheGate(c) ==
    /\ c.by = "build_defences"
    /\ c.op = "attempt_spawn"
    /\ \/ c.locations = basic_destructor_locations
       \/ c.unit_type = "FF"
       \/ c.locations = PrimaryEncryptor
       \/ c.locations = SubSeq(secondary_destructor_locations, 1, 7)

\* The structure balance the planner reads when it reaches the tranche gate.
BalanceAtTrancheGate == StructureBalance - SumCost(Calls, IsBeforeTrancheGate)

IsPlannerSpawn(c) == c.by = "build_defences" /\ c.op = "attempt_spawn"

IsPlannerUpgrade(c) == c.by = "build_defences" /\ c.op = "attempt_upgrade"

\* The distinct (unit kind, location) pairs the planner asked to place.
PlacementIntents(calls) ==
    UNION { { <<calls[i].unit_type, l>> : l \in Range(calls[i].locations) } :
                i \in { j \in 1..Len(calls) : IsPlannerSpawn(calls[j]) } }

\* The locations the planner asked to upgrade.
UpgradeLocations(calls) ==
    UNION { Range(calls[i].locations) :
                i \in { j \in 1..Len(calls) : IsPlannerUpgrade(calls[j]) } }

\* The Engine state after the planner's placements among calls are asked for
\* once more, in the order they were made.
RECURSIVE ReplayPlacements(_, _)
ReplayPlacements(gs, calls) ==
    IF calls = <<>> THEN gs
    ELSE LET c == Head(calls)
         IN  ReplayPlacements(
                 IF IsPlannerSpawn(c)
                 THEN attempt_spawn(gs, c.by, c.unit_type, c.locations, c.num)
                 ELSE gs,
                 Tail(calls))

IsScramblerAt(c, location) ==
    /\ c.by = "starter_strategy"
    /\ IsScrambler(c)
    /\ c.locations = <<location>>
    /\ c.num = 1

(***************************************************************************)
(* C13 Scrambler deployment: in a turn numbered 1 or greater than 10 the    *)
(* Rush Controller attempts one scrambling unit at [6, 7] and then one at   *)
(* [21, 7], and no other scrambler; in every other turn (0, 2..10) it       *)
(* attempts none.  This holds whatever rush_active and the tempo balance    *)
(* are and whether or not the burst fires.                                  *)
(***************************************************************************)
C13_ScramblerDeployment ==
    pc = "on_turn" =>
        \A at \in {Positions(IsScrambler)} :
            IF TurnNumber = 1 \/ TurnNumber > 10
            THEN \E i, j \in at :
                     /\ at = {i, j}
                     /\ i < j
                     /\ IsScramblerAt(Calls[i], <<6, 7>>)
                     /\ IsScramblerAt(Calls[j], <<21, 7>>)
            ELSE at = {}

\* Turn 11 decided by a disarmed agent: both scramblers are attempted and the
\* burst does not fire.
C13_Witness ==
    /\ pc = "on_turn"
    /\ TurnNumber = 11
    /\ ~RUSH
    /\ ~BurstIssued
    /\ \E i \in Positions(IsScrambler) : IsScramblerAt(Calls[i], <<21, 7>>)

QueryOps == {"find_path_to_edge", "get_attackers"}

(***************************************************************************)
(* C14 Risk Estimator is read-only: for every non-empty candidate sequence  *)
(* a call of least_damage_spawn_location makes only path and attacker       *)
(* queries and leaves the Engine state (occupancy, balances, the calls      *)
(* recorded so far) and the agent's attributes as they were; so the burst   *)
(* of a turn spends the whole tempo balance left after the scramblers.  The *)
(* Engine states are those a turn decision has just worked on.              *)
(***************************************************************************)
C14_EstimatorReadOnly ==
    pc = "on_turn" =>
        /\ \A cands \in Candidates :
               \A r \in {least_damage_spawn_location_call(game_state, Self, cands)} :
                   /\ r.game_state.game_map = game_state.game_map
                   /\ r.game_state.resources = game_state.resources
                   /\ r.game_state.calls = game_state.calls
                   /\ r.game_state = game_state
                   /\ r.self = Self
                   /\ Len(r.queries) >= 2
                   /\ \A i \in 1..Len(r.queries) : r.queries[i].op \in QueryOps
        /\ \A k \in 1..Len(Calls) :
               IsBurst(Calls[k]) =>
                   /\ Calls[k].cost = TempoBalance - SumCost(Calls, IsScrambler)
                   /\ Calls[k].locations[1] \notin DOMAIN game_state.game_map

\* A turn with enemy turrets in reach of a lane, structures placed, a breach
\* logged and the burst issued after a call of the estimator.
C14_Witness ==
    /\ pc = "on_turn"
    /\ BurstIssued
    /\ Exposure(<<16, 2>>) > 0
    /\ DOMAIN game_state.game_map # {}
    /\ scored_on_locations # <<>>

IsPlannerCall(c) == c.by = "build_defences"

\* The calls the planner made in the turn, in order.
PlannerCalls == SelectSeq(Calls, IsPlannerCall)

\* What a call asks for: the operation, the unit kind and the locations.
Asks(c) == <<c.op, c.unit_type, c.locations>>

CoreWalls == basic_filter_locations

FirstSevenSecondaryTurrets == SubSeq(secondary_destructor_locations, 1, 7)

\* The planner's calls in the order of the claim, with or without the two
\* gated calls; tranche_locations is the list of the gated tranche.
PlannerOrder(tranche, tranche_locations, upgrade) ==
    << <<"attempt_spawn", "DF", << <<5, 10>>, <<22, 10>> >> >>,
       <<"attempt_spawn", "FF", CoreWalls>>,
       <<"attempt_spawn", "EF", PrimaryEncryptor>>,
       <<"attempt_spawn", "DF", FirstSevenSecondaryTurrets>> >>
    \o (IF tranche THEN << <<"attempt_spawn", "EF", tranche_locations>> >> ELSE <<>>)
    \o << <<"attempt_spawn", "DF", secondary_destructor_locations>>,
          <<"attempt_upgrade", "", filter_upgrade_locations>>,
          <<"attempt_upgrade", "", secondary_destructor_locations>>,
          <<"attempt_upgrade", "", << <<5, 10>>, <<22, 10>> >> >> >>
    \o (IF upgrade THEN << <<"attempt_upgrade", "", encryptor_locations>> >> ELSE <<>>)

\* The calls of the turn follow the order of the claim, and every placement
\* call precedes every upgrade call.
PlannerCallOrder ==
    /\ Len(CoreWalls) = 26 /\ Len(secondary_destructor_locations) = 12
    /\ \E tranche, upgrade \in BOOLEAN :
       \E tranche_locations \in {SubSeq(encryptor_locations, 1, 7), encryptor_locations} :
           [i \in 1..Len(PlannerCalls) |-> Asks(PlannerCalls[i])]
               = PlannerOrder(tranche, tranche_locations, upgrade)
    /\ \A i, j \in 1..Len(PlannerCalls) :
           (PlannerCalls[i].op = "attempt_spawn" /\ PlannerCalls[j].op = "attempt_upgrade")
               => i < j

\* The wall upgrade call: the first upgrade call of the planner.
WallUpgrade ==
    PlannerCalls[CHOOSE i \in 1..Len(PlannerCalls) :
                     /\ PlannerCalls[i].op = "attempt_upgrade"
                     /\ \A j \in 1..(i - 1) : PlannerCalls[j].op # "attempt_upgrade"]

(***************************************************************************)
(* C15 Defense Planner call order, as claimed: the planner's calls of a     *)
(* turn are, in this order, primary turrets ([5,10], [22,10]), the 26 core  *)
(* walls, the primary energy generator, the first 7 secondary turrets, the  *)
(* gated tranche (if any), all 12 secondary turrets, then the upgrades of   *)
(* core walls, secondary turrets, primary turrets and (gated) energy        *)
(* generators; placements precede upgrades; and the wall upgrade call       *)
(* covers every core wall location placed in step 1.                        *)
(***************************************************************************)
C15_CallOrderAllWalls ==
    pc = "on_turn" =>
        /\ PlannerCallOrder
        /\ Range(CoreWalls) \subseteq Range(WallUpgrade.locations)

\* C15 as amended: the same order, placements before upgrades; the wall
\* upgrade call covers 12 of the 26 core wall locations, the two outer rows
\* [5,11] [6,11] [21,11] [22,11] [6,9] [21,9] and the corners [3,11] [2,12]
\* [1,13] [24,11] [25,12] [26,13], and no other location.
C15_CallOrderOuterWalls ==
    pc = "on_turn" =>
        /\ PlannerCallOrder
        /\ Range(WallUpgrade.locations) \subseteq Range(CoreWalls)
        /\ WallUpgrade.locations =
               << <<5, 11>>, <<6, 11>>, <<21, 11>>, <<22, 11>>, <<6, 9>>, <<21, 9>>,
                  <<3, 11>>, <<2, 12>>, <<1, 13>>, <<24, 11>>, <<25, 12>>, <<26, 13>> >>

\* A turn with both gated calls made: ten planner calls, some of them
\* upgrading structures.
C15_Witness ==
    /\ pc = "on_turn"
    /\ Len(PlannerCalls) = 10
    /\ \E i \in 1..Len(PlannerCalls) :
           PlannerCalls[i].op = "attempt_upgrade" /\ PlannerCalls[i].done > 0

(***************************************************************************)
(* C16 Damage within the turn prevents disarming, as claimed: after a turn  *)
(* that attempted a rush, once a batch with a breach owned by the agent     *)
(* (owner flag 1) has arrived, no well-formed batch arriving before the     *)
(* next turn decision disarms the agent, whether it holds a breach or not.  *)
(***************************************************************************)
C16_DamageInWindowKeepsArmed ==
    [][(pc' = "on_action_frame" /\ WellFormed(frame') /\ burst_last_turn
            /\ damage_since_turn' /\ RUSH)
         => RUSH']_vars

\* Armed, with no attempt recorded and an empty breach log.
ArmedAndUntried == RUSH = TRUE /\ RUSH_ATTEMPTED = FALSE /\ scored_on_locations = <<>>

(***************************************************************************)
(* C17 Implicit invariant: the match starts armed, with no attempt recorded *)
(* and an empty breach log; in every state rush_active false implies the    *)
(* rush-attempted flag is true; and the flag becomes true only in a turn    *)
(* decision that issues the burst.  So the agent is never disarmed before   *)
(* its first rush attempt, whatever batches arrive.                         *)
(***************************************************************************)
C17_DisarmedOnlyAfterAttempt ==
    /\ ArmedAndUntried
    /\ [](~RUSH => RUSH_ATTEMPTED)
    /\ [][(~RUSH_ATTEMPTED /\ RUSH_ATTEMPTED') => (pc' = "on_turn" /\ BurstIssued')]_vars

\* The agent has just been disarmed by a batch without a breach of its own,
\* after batches that arrived before its first attempt had logged a breach.
C17_Witness ==
    /\ pc = "on_action_frame"
    /\ ~RUSH
    /\ RUSH_ATTEMPTED
    /\ ~got_damage
    /\ frame = [events |-> [breach |-> <<>>]]
    /\ scored_on_locations # <<>>

(***************************************************************************)
(* C18 Implicit frame conditions: a turn decision leaves rush_active, the   *)
(* took-damage flag and the breach log unchanged and never takes the        *)
(* rush-attempted flag from true to false; processing an event batch, well  *)
(* formed or not, leaves the rush-attempted flag unchanged and makes no     *)
(* placement, upgrade or submit call.                                       *)
(***************************************************************************)
C18_FrameConditions ==
    [][/\ pc' = "on_turn" =>
              /\ RUSH' = RUSH
              /\ got_damage' = got_damage
              /\ scored_on_locations' = scored_on_locations
              /\ RUSH_ATTEMPTED => RUSH_ATTEMPTED'
       /\ pc' = "on_action_frame" =>
              /\ RUSH_ATTEMPTED' = RUSH_ATTEMPTED
              /\ game_state' = game_state
              /\ Calls' = <<>>]_vars

\* A turn decided, with the burst, by a disarmed agent whose last batch held
\* no breach of its own and whose breach log is not empty.
C18_Witness ==
    /\ pc = "on_turn"
    /\ BurstIssued
    /\ ~RUSH
    /\ ~got_damage
    /\ Len(scored_on_locations) = 2

====
